---- MODULE Spec2Model ----
(***************************************************************************)
(* Plugin configuration and execution dispatch of IntelOwl                 *)
(* (api_app/core/models.py): resolution of a plugin parameter through the  *)
(* owner / organization / default tiers, the runnability of a plugin       *)
(* configuration, its validation (clean), the construction of the celery   *)
(* signature of a plugin run, and the signatures of a stage of a job.      *)
(***************************************************************************)
EXTENDS Integers, Sequences, FiniteSets, TLC

VARIABLES
    store,                      \* the PluginConfig rows of the database
    STAGE_CI,                   \* settings.STAGE_CI
    disabled,                   \* AbstractConfig.disabled
    disabled_in_organizations,  \* AbstractConfig.disabled_in_organizations
    config,                     \* PythonConfig.config (queue, soft_time_limit)
    cached,                     \* the cached_property values of the instance
    uuids,                      \* how many uuid4 values have been generated
    issued,                     \* task ids of the signatures returned so far
    result,                     \* what the last call returned or raised
    python_module,              \* PythonConfig.python_module
    pipeline                    \* the stage of a job the coordinator runs

vars == <<store, STAGE_CI, disabled, disabled_in_organizations, config,
          cached, uuids, issued, result, python_module, pipeline>>

(***************************************************************************)
(* Bounds of the exploration.                                              *)
(***************************************************************************)
MaxRows == 3
MaxRowsRun == 1
MaxSignatures == 2
MaxRowsRace == 2
MaxRowsFrame == 1
MaxStages == 1

(***************************************************************************)
(* Users and organizations (certego_saas).  None is Python's None.         *)
(***************************************************************************)
None == "None"
NoOrg == "NoOrg"
Users == {"u1", "u2", "u3", "u4"}
Orgs == {"o1", "o2"}
JobUsers == Users \cup {None}

\* user.membership.organization, NoOrg when the user has no membership
membership(user) ==
    CASE user = "u1" -> "o1"
      [] user = "u2" -> "o1"
      [] user = "u3" -> "o2"
      [] OTHER -> NoOrg

\* organization.owner
org_owner(org) ==
    CASE org = "o1" -> "u1"
      [] org = "o2" -> "u3"

\* user.has_membership()
has_membership(user) == membership(user) # NoOrg

(***************************************************************************)
(* The parameters of the Validin analyzer (migration 0065), in the order   *)
(* the migration creates them.                                             *)
(***************************************************************************)
PluginName == "Validin"

params ==
    << [name |-> "scan_choice", is_secret |-> FALSE, required |-> FALSE],
       [name |-> "api_key_name", is_secret |-> TRUE, required |-> TRUE] >>

Parameters == {params[i] : i \in DOMAIN params}
ParamNames == {p.name : p \in Parameters}

\* parameters of other plugins, as their migrations name them
OtherParameters ==
    { [name |-> "base_url", is_secret |-> FALSE, required |-> TRUE],
      [name |-> "pdns_credentials", is_secret |-> TRUE, required |-> TRUE],
      [name |-> "test_param", is_secret |-> FALSE, required |-> FALSE] }

\* PythonConfig.required_parameters
required_parameters == {p \in Parameters : p.required}

\* self.parameters.all(): a queryset without ordering, so every order of the
\* rows is possible
ParamOrders ==
    {o \in [1..Len(params) -> Parameters] :
        \A i, j \in 1..Len(params) : i # j => o[i] # o[j]}

(***************************************************************************)
(* PluginConfig rows.  A row is scoped to a user (owner, not               *)
(* for_organization), to an organization (owner is the organization's      *)
(* owner, for_organization) or to nobody (the default).                    *)
(***************************************************************************)
Scopes ==
    {[owner |-> None, for_organization |-> FALSE]}
    \cup {[owner |-> u, for_organization |-> FALSE] : u \in Users}
    \cup {[owner |-> org_owner(o), for_organization |-> TRUE] : o \in Orgs}

\* the value saved for a scope: one per scope, so that the tier a value comes
\* from shows in the value
ValueOf(scope) ==
    IF scope.owner = None THEN "def-key"
    ELSE IF scope.for_organization
    THEN CASE scope.owner = "u1" -> "org-key-o1"
           [] scope.owner = "u3" -> "org-key-o2"
    ELSE CASE scope.owner = "u1" -> "user-key-u1"
           [] scope.owner = "u2" -> "user-key-u2"
           [] scope.owner = "u3" -> "user-key-u3"
           [] scope.owner = "u4" -> "user-key-u4"

Row(p, scope, value) ==
    [parameter |-> p.name, owner |-> scope.owner,
     for_organization |-> scope.for_organization, value |-> value]

ScopeOf(row) == [owner |-> row.owner, for_organization |-> row.for_organization]

\* unique_together (owner, for_organization, parameter)
UniqueTogether(rows) ==
    \A r1, r2 \in rows :
        (r1.parameter = r2.parameter /\ ScopeOf(r1) = ScopeOf(r2)) => r1 = r2

\* visible_for_user that shows a member every row of the organization's
\* owner, the owner's personal rows included
visible_for_user_owner_rows(rows, user) ==
    IF user = None
    THEN {r \in rows : r.owner = None}
    ELSE IF has_membership(user)
    THEN {r \in rows :
            \/ r.owner = org_owner(membership(user))
            \/ r.owner = user
            \/ r.owner = None}
    ELSE {r \in rows : r.owner = user \/ r.owner = None}

\* PluginConfig.visible_for_user(user): the user's own rows, the rows of the
\* user's organization, and the defaults
visible_for_user(rows, user) ==
    IF user = None
    THEN {r \in rows : r.owner = None}
    ELSE IF has_membership(user)
    THEN {r \in rows :
            \/ r.for_organization /\ r.owner = org_owner(membership(user))
            \/ r.owner = user
            \/ r.owner = None}
    ELSE {r \in rows : r.owner = user \/ r.owner = None}

\* Parameter.values_for_user
values_for_user(rows, p, user) ==
    {r \in visible_for_user(rows, user) : r.parameter = p.name}

\* QuerySet.get: the one row, DoesNotExist or MultipleObjectsReturned
Get(qs) ==
    IF qs = {} THEN [exc |-> "DoesNotExist"]
    ELSE IF Cardinality(qs) > 1 THEN [exc |-> "MultipleObjectsReturned"]
    ELSE [exc |-> "none", row |-> CHOOSE r \in qs : TRUE]


(***************************************************************************)
(* Parameter.get_first_value, query by query.  The queryset of             *)
(* values_for_user is lazy: each get is a query of its own, answered from  *)
(* the rows of the database at the time it is made.  A step of a call      *)
(* makes one query and answers with the outcome of the call (done) or      *)
(* with the query that follows (pc).                                       *)
(***************************************************************************)
Returned(row) == [exc |-> "none", row |-> row]
Raised(e) == [exc |-> e]

\* what a call returned or raised, without the rows it left
Outcome(r) == IF r.exc = "none" THEN Returned(r.row) ELSE Raised(r.exc)

Done(out) == [done |-> TRUE, out |-> out]
Goto(pc) == [done |-> FALSE, pc |-> pc]

\* qs.get(owner=user) and its handler up to user.has_membership()
\* (lines 202-207)
lookup_owner(rows, p, user) ==
    LET r1 == Get({r \in values_for_user(rows, p, user) : r.owner = user})
    IN  IF r1.exc = "none" THEN Done(Outcome(r1))
        ELSE IF r1.exc # "DoesNotExist" THEN Done(Outcome(r1))
        ELSE IF user = None THEN Done(Raised("AttributeError"))
        ELSE IF has_membership(user) THEN Goto("organization")
        ELSE Goto("default")

\* the organization tier that is passed over without a query
lookup_organization_skipped(rows, p, user) == Goto("default")

\* qs.get(for_organization=True, owner=user.membership.organization.owner)
\* (lines 208-214)
lookup_organization(rows, p, user) ==
    LET r2 == Get({r \in values_for_user(rows, p, user) :
                      /\ r.for_organization
                      /\ r.owner = org_owner(membership(user))})
    IN  IF r2.exc = "DoesNotExist" THEN Goto("default")
        ELSE Done(Outcome(r2))

\* qs.get(owner__isnull=True) (lines 217-225)
lookup_default(rows, p, user) ==
    LET r3 == Get({r \in values_for_user(rows, p, user) : r.owner = None})
    IN  IF r3.exc = "DoesNotExist" THEN Done(Raised("RuntimeError"))
        ELSE Done(Outcome(r3))

\* the query the body of get_first_value makes at pc
lookup(pc, rows, p, user) ==
    CASE pc = "owner" -> lookup_owner(rows, p, user)
      [] pc = "organization" -> lookup_organization(rows, p, user)
      [] pc = "default" -> lookup_default(rows, p, user)

\* the characters of the names of parameters, and of "url" and "test"
Chars(name) ==
    CASE name = "scan_choice" ->
             <<"s", "c", "a", "n", "_", "c", "h", "o", "i", "c", "e">>
      [] name = "api_key_name" ->
             <<"a", "p", "i", "_", "k", "e", "y", "_", "n", "a", "m", "e">>
      [] name = "base_url" -> <<"b", "a", "s", "e", "_", "u", "r", "l">>
      [] name = "url_to_check" ->
             <<"u", "r", "l", "_", "t", "o", "_", "c", "h", "e", "c", "k">>
      [] name = "test_param" ->
             <<"t", "e", "s", "t", "_", "p", "a", "r", "a", "m">>
      [] name = "pdns_credentials" ->
             <<"p", "d", "n", "s", "_", "c", "r", "e", "d", "e", "n", "t",
               "i", "a", "l", "s">>
      [] name = "url" -> <<"u", "r", "l">>
      [] name = "test" -> <<"t", "e", "s", "t">>

\* "sub" in name: sub is a substring of name
Contains(name, sub) ==
    LET n == Chars(name)
        s == Chars(sub)
    IN  \E i \in 1..(Len(n) - Len(s) + 1) :
            SubSeq(n, i, i + Len(s) - 1) = s

\* the value the decorator saves for a parameter
test_value(p) ==
    IF Contains(p.name, "url") THEN "https://intelowl.com"
    ELSE IF p.name = "pdns_credentials" THEN "user|pwd"
    ELSE "test"

\* valid_value_for_test that does not look at settings.STAGE_CI
valid_value_for_test_always(out, ci, p) ==
    IF out.exc # "RuntimeError" THEN Done(out)
    ELSE IF Contains(p.name, "url") THEN Goto("get")
    ELSE IF p.name = "pdns_credentials" THEN Goto("get")
    ELSE IF Contains(p.name, "test") THEN Done(out)
    ELSE Goto("get")

\* the decorator valid_value_for_test on the outcome of the body of
\* get_first_value: the outcome of the call, or the get_or_create that
\* follows
valid_value_for_test(out, ci, p) ==
    IF out.exc # "RuntimeError" THEN Done(out)
    ELSE IF ~ci THEN Done(out)
    ELSE IF Contains(p.name, "url") THEN Goto("get")
    ELSE IF p.name = "pdns_credentials" THEN Goto("get")
    ELSE IF Contains(p.name, "test") THEN Done(out)
    ELSE Goto("get")

\* the row get_or_create looks for and creates
DefaultRow(p, value) ==
    Row(p, [owner |-> None, for_organization |-> FALSE], value)

\* PluginConfig.objects.get_or_create(value, parameter, owner=None,
\* for_organization=False)[0], query by query: the get, the create when no
\* row is found, and the get after a create that unique_together refuses
get_or_create(pc, rows, p, value) ==
    LET found == Get({r \in rows : r = DefaultRow(p, value)})
    IN  CASE pc = "get" ->
               IF found.exc = "none"
               THEN Done(Returned(found.row)) @@ [rows |-> rows]
               ELSE Goto("create") @@ [rows |-> rows]
          [] pc = "create" ->
               IF \E r \in rows : /\ r.parameter = p.name
                                  /\ r.owner = None
                                  /\ ~r.for_organization
               THEN Goto("get_again") @@ [rows |-> rows]
               ELSE Done(Returned(DefaultRow(p, value)))
                    @@ [rows |-> rows \cup {DefaultRow(p, value)}]
          [] pc = "get_again" ->
               IF found.exc = "none"
               THEN Done(Returned(found.row)) @@ [rows |-> rows]
               ELSE Done(Raised("IntegrityError")) @@ [rows |-> rows]

\* one query of Parameter.get_first_value as callers see it, the decorator
\* included
get_first_value_step(pc, rows, ci, p, user) ==
    IF pc \in {"owner", "organization", "default"}
    THEN LET s == lookup(pc, rows, p, user)
         IN  (IF s.done THEN valid_value_for_test(s.out, ci, p) ELSE s)
             @@ [rows |-> rows]
    ELSE get_or_create(pc, rows, p, test_value(p))

\* the call from the query at pc to its end, on rows no other request
\* changes
RECURSIVE get_first_value_from(_, _, _, _, _)
get_first_value_from(pc, rows, ci, p, user) ==
    LET s == get_first_value_step(pc, rows, ci, p, user)
    IN  IF s.done THEN s.out @@ [rows |-> s.rows]
        ELSE get_first_value_from(s.pc, s.rows, ci, p, user)

\* Parameter.get_first_value on rows no other request changes
get_first_value(rows, ci, p, user) ==
    get_first_value_from("owner", rows, ci, p, user)


(***************************************************************************)
(* Jobs: the requesting user (None for an anonymous job) and the runtime   *)
(* configuration given for the plugin, a set of <<name, value>> pairs.     *)
(***************************************************************************)
Keys(m) == {e[1] : e \in m}
MapGet(m, k) == (CHOOSE e \in m : e[1] = k)[2]

RuntimeConfs ==
    { {},
      {<<"api_key_name", "abc">>},
      {<<"scan_choice", "a_records">>},
      {<<"api_key_name", "abc">>, <<"scan_choice", "a_records">>} }

Jobs ==
    {[pk |-> <<u, Keys(rc)>>, user |-> u, runtime_configuration |-> rc] :
        u \in JobUsers, rc \in RuntimeConfs}

\* job.get_config_runtime_configuration(config): the overrides of the job for
\* this plugin
get_config_runtime_configuration(job) == job.runtime_configuration

(***************************************************************************)
(* PythonConfig.read_params, query by query.  The call keeps the order the *)
(* queryset of the parameters gave, the parameter it is at (i), the query  *)
(* of get_first_value it is at (pc) and the entries of the result so far   *)
(* (acc).                                                                  *)
(***************************************************************************)
\* a test that finds no parameter in the runtime configuration
in_runtime_configuration_never(job, p) == FALSE

\* param.name in job.get_config_runtime_configuration(self) (line 430)
in_runtime_configuration(job, p) ==
    p.name \in Keys(get_config_runtime_configuration(job))

\* the turns of the loop that make no query: from the i-th parameter to the
\* next one that is not in the runtime configuration (lines 429-431)
RECURSIVE read_params_overrides(_, _, _, _)
read_params_overrides(order, i, job, acc) ==
    IF i > Len(order) THEN [i |-> i, acc |-> acc]
    ELSE IF in_runtime_configuration(job, order[i])
    THEN read_params_overrides(
             order, i + 1, job,
             acc \cup {<<order[i].name,
                         MapGet(get_config_runtime_configuration(job),
                                order[i].name)>>})
    ELSE [i |-> i, acc |-> acc]

\* the call goes on from the i-th parameter: it is over when no parameter
\* is left to look up
read_params_next(order, i, job, acc, rows) ==
    LET a == read_params_overrides(order, i, job, acc)
    IN  IF a.i > Len(order)
        THEN [done |-> TRUE, out |-> [exc |-> "none", params |-> a.acc],
              rows |-> rows]
        ELSE [done |-> FALSE, i |-> a.i, pc |-> "owner", acc |-> a.acc,
              rows |-> rows]

\* one step of read_params: the turns without a query, one query of
\* get_first_value for the parameter the loop is at, and what the loop does
\* with the outcome (lines 432-437)
read_params_step(order, i, pc, acc, rows, ci, job) ==
    LET a == read_params_overrides(order, i, job, acc)
    IN  IF a.i > Len(order)
        THEN [done |-> TRUE, out |-> [exc |-> "none", params |-> a.acc],
              rows |-> rows]
        ELSE LET p == order[a.i]
                 s == get_first_value_step(pc, rows, ci, p, job.user)
             IN  IF ~s.done
                 THEN [done |-> FALSE, i |-> a.i, pc |-> s.pc,
                       acc |-> a.acc, rows |-> s.rows]
                 ELSE IF s.out.exc = "none"
                 THEN read_params_next(
                          order, a.i + 1, job,
                          a.acc \cup {<<p.name, s.out.row.value>>}, s.rows)
                 ELSE IF s.out.exc = "RuntimeError" /\ ~p.required
                 THEN read_params_next(order, a.i + 1, job, a.acc, s.rows)
                 ELSE [done |-> TRUE,
                       out |-> [exc |-> s.out.exc, params |-> {}],
                       rows |-> s.rows]

\* the call from a step to its end, on rows no other request changes
RECURSIVE read_params_from(_, _, _, _, _, _, _)
read_params_from(order, i, pc, acc, rows, ci, job) ==
    LET s == read_params_step(order, i, pc, acc, rows, ci, job)
    IN  IF s.done THEN s.out @@ [rows |-> s.rows]
        ELSE read_params_from(order, s.i, s.pc, s.acc, s.rows, ci, job)

\* PythonConfig.read_params on rows no other request changes
read_params(order, rows, ci, job) ==
    read_params_from(order, 1, "owner", {}, rows, ci, job)

(***************************************************************************)
(* Runnability of the plugin configuration, query by query.                *)
(***************************************************************************)
\* _is_disabled_in_org that does not filter on the user's organization
is_disabled_in_any_org(dis_orgs, user) ==
    IF user # None /\ has_membership(user)
    THEN dis_orgs # {}
    ELSE FALSE

\* AbstractConfig._is_disabled_in_org: for a member, one query of
\* disabled_in_organizations
is_disabled_in_org(dis_orgs, user) ==
    IF user # None /\ has_membership(user)
    THEN membership(user) \in dis_orgs
    ELSE FALSE

\* is_runnable that looks at the organization only
abstract_is_runnable_org_only(dis, dis_orgs, user) ==
    ~is_disabled_in_org(dis_orgs, user)

\* AbstractConfig.is_runnable
abstract_is_runnable(dis, dis_orgs, user) ==
    ~is_disabled_in_org(dis_orgs, user) /\ ~dis

\* the required parameters in the order the queryset gives them
required_order == SelectSeq(params, LAMBDA p : p.required)

\* param.values_for_user(user).exists() (line 384)
values_exist(rows, p, user) == values_for_user(rows, p, user) # {}

\* one step of PythonConfig.is_runnable: at "abstract" the check of
\* AbstractConfig.is_runnable, at "configured" the query of _is_configured
\* for the k-th required parameter
is_runnable_step(pc, k, rows, dis, dis_orgs, user) ==
    IF pc = "abstract"
    THEN IF ~abstract_is_runnable(dis, dis_orgs, user) THEN Done(FALSE)
         ELSE IF Len(required_order) = 0 THEN Done(TRUE)
         ELSE [done |-> FALSE, pc |-> "configured", k |-> 1]
    ELSE IF ~values_exist(rows, required_order[k], user) THEN Done(FALSE)
         ELSE IF k = Len(required_order) THEN Done(TRUE)
         ELSE [done |-> FALSE, pc |-> "configured", k |-> k + 1]

\* the call from a step to its end, on a state no other request changes
RECURSIVE is_runnable_from(_, _, _, _, _, _)
is_runnable_from(pc, k, rows, dis, dis_orgs, user) ==
    LET s == is_runnable_step(pc, k, rows, dis, dis_orgs, user)
    IN  IF s.done THEN s.out
        ELSE is_runnable_from(s.pc, s.k, rows, dis, dis_orgs, user)

\* PythonConfig.is_runnable on a state no other request changes
is_runnable(rows, dis, dis_orgs, user) ==
    is_runnable_from("abstract", 0, rows, dis, dis_orgs, user)

(***************************************************************************)
(* Queues and the signature of a plugin run.                               *)
(***************************************************************************)
DEFAULT_QUEUE == "default"
CELERY_QUEUES == {"default", "local", "long"}
Queues == CELERY_QUEUES \cup {"bogus"}
SoftTimeLimits == {30, 60}

\* config_default()
config_default == [queue |-> DEFAULT_QUEUE, soft_time_limit |-> 60]

\* intel_owl.celery.get_queue_name: the broker's name of a queue
get_queue_name(queue) == <<"queue_name", queue>>

\* the python_base_path of an analyzer and the modules an administrator may
\* name: the one of the plugin, and one that does not exist
python_base_path == "api_app.analyzers_manager.observable_analyzers"
PythonModules == {"validin.Validin", "validin.Missing"}

\* PythonConfig.python_complete_path: python_base_path "." python_module
python_complete_path == <<python_base_path, python_module>>

\* the classes the interpreter can import
Importable == {<<python_base_path, "validin.Validin">>}

\* django.utils.module_loading.import_string
import_string(path) ==
    IF path \in Importable THEN [exc |-> "none", class |-> path]
    ELSE [exc |-> "ImportError"]

\* PythonConfig.python_class
python_class == import_string(python_complete_path)

\* clean_python_module that accepts every python_module
clean_python_module_unchecked == "none"

\* PythonConfig.clean_python_module: the exception it raises
clean_python_module ==
    IF python_class.exc = "ImportError" THEN "ValidationError" ELSE "none"

\* clean_config_queue that leaves the queue as it is
clean_config_queue_unchanged(cfg) == cfg

\* PythonConfig.clean_config_queue: the config it leaves
clean_config_queue(cfg) ==
    IF cfg.queue \notin CELERY_QUEUES
    THEN [cfg EXCEPT !.queue = DEFAULT_QUEUE]
    ELSE cfg

\* PythonConfig.clean: the exception it raises and the config it leaves
clean(cfg) ==
    IF clean_python_module # "none"
    THEN [exc |-> clean_python_module, config |-> cfg]
    ELSE [exc |-> "none", config |-> clean_config_queue(cfg)]

\* a cached_property: the cached value when there is one, else the computed one
CachedOr(cache, value) == IF cache = {} THEN value ELSE CHOOSE v \in cache : TRUE

\* queue without the fallback to the default queue
queue_as_configured(cfg, cache) ==
    CachedOr(cache.queue, get_queue_name(cfg.queue))

\* PythonConfig.queue
queue(cfg, cache) ==
    CachedOr(cache.queue,
             get_queue_name(IF cfg.queue \notin CELERY_QUEUES
                            THEN DEFAULT_QUEUE ELSE cfg.queue))

\* PythonConfig.soft_time_limit
soft_time_limit(cfg, cache) ==
    CachedOr(cache.soft_time_limit, cfg.soft_time_limit)

NoCache == [queue |-> {}, soft_time_limit |-> {}]

\* uuid.uuid4(): a value no earlier call returned; n values were generated
uuid4(n) == n + 1

\* a task id that is generated once and used again
reused_task_id(n) == uuid4(0)

\* the task id of a signature built when n uuids were generated (line 447)
new_task_id(n) == uuid4(n)

\* the signature get_signature builds when n uuids were generated, and the
\* cached properties and the count of uuids it leaves (lines 447-467)
new_signature(cfg, cache, n, job, configuration) ==
    LET task_id == new_task_id(n)
        q == queue(cfg, cache)
        stl == soft_time_limit(cfg, cache)
    IN  [exc |-> "none",
         signature |->
           [task |-> "run_plugin",
            args |-> <<job.pk, python_complete_path, PluginName,
                       configuration, task_id>>,
            queue |-> q,
            soft_time_limit |-> stl,
            task_id |-> task_id,
            immutable |-> TRUE,
            MessageGroupId |-> task_id],
         cached |-> [queue |-> {q}, soft_time_limit |-> {stl}],
         uuids |-> n + 1]

\* get_signature without the check of is_runnable
get_signature_unchecked(runnable, cfg, cache, n, job) ==
    new_signature(cfg, cache, n, job, get_config_runtime_configuration(job))

\* get_signature that leaves the runtime configuration out of the arguments
get_signature_without_configuration(runnable, cfg, cache, n, job) ==
    IF runnable
    THEN new_signature(cfg, cache, n, job, {})
    ELSE [exc |-> "RuntimeError", cached |-> cache, uuids |-> n]

\* PythonConfig.get_signature once is_runnable has answered (lines 445-467)
get_signature_after(runnable, cfg, cache, n, job) ==
    IF runnable
    THEN new_signature(cfg, cache, n, job,
                       get_config_runtime_configuration(job))
    ELSE [exc |-> "RuntimeError", cached |-> cache, uuids |-> n]

\* PythonConfig.get_signature on a state no other request changes
get_signature(rows, dis, dis_orgs, cfg, cache, n, job) ==
    get_signature_after(is_runnable(rows, dis, dis_orgs, job.user),
                        cfg, cache, n, job)

(***************************************************************************)
(* The analyzers stage of a job.  The job names analyzers; the coordinator *)
(* takes the runnable ones, gets a signature for each and submits it, and  *)
(* then submits the signature that sets the status of the job to the       *)
(* completed status of the stage, with the tokens it depends on.           *)
(***************************************************************************)
StagePlugins == {PluginName, "Vulners", "Phoneinfoga"}
StageJobs == {job \in Jobs : job.runtime_configuration = {}}

\* PythonConfig.stage_status_running and stage_status_complete of the
\* analyzers
stage_status_running == "analyzers_running"
stage_status_complete == "analyzers_completed"

\* PythonConfig._signature_pipeline_status, when n uuids were generated
signature_pipeline_status(job, status, n) ==
    [signature |->
       [task |-> "job_set_pipeline_status",
        args |-> <<job.pk, status>>,
        kwargs |-> {},
        queue |-> get_queue_name(DEFAULT_QUEUE),
        soft_time_limit |-> 10,
        immutable |-> TRUE,
        MessageGroupId |-> uuid4(n)],
     uuids |-> n + 1]

\* PythonConfig.signature_pipeline_running
signature_pipeline_running(job, n) ==
    signature_pipeline_status(job, stage_status_running, n)

\* PythonConfig.signature_pipeline_completed
signature_pipeline_completed(job, n) ==
    signature_pipeline_status(job, stage_status_complete, n)

\* what the worker pool is given: the signature, its token and the tokens
\* that must have finished before it runs
Descriptor(signature, token, dependencies) ==
    [signature |-> signature, token |-> token, dependencies |-> dependencies]

\* the plugin of this model is runnable as its flags and saved values say;
\* the other analyzers are enabled and need no value
stage_runnable(rows, dis, dis_orgs, plugin, user) ==
    IF plugin = PluginName THEN is_runnable(rows, dis, dis_orgs, user)
    ELSE TRUE

\* the python_module of the other analyzers
stage_module(plugin) ==
    CASE plugin = "Vulners" -> "vulners.Vulners"
      [] plugin = "Phoneinfoga" -> "phoneinfoga_scan.Phoneinfoga"

\* the signature of the run of a plugin of the stage: get_signature of the
\* plugin of this model, and for another analyzer the same with its own key
\* and the default config
stage_signature(rows, dis, dis_orgs, cfg, cache, n, job, plugin) ==
    IF plugin = PluginName
    THEN get_signature(rows, dis, dis_orgs, cfg, cache, n, job)
    ELSE LET task_id == new_task_id(n)
         IN  [exc |-> "none",
              signature |->
                [task |-> "run_plugin",
                 args |-> <<job.pk, <<python_base_path, stage_module(plugin)>>,
                            plugin,
                            get_config_runtime_configuration(job), task_id>>,
                 queue |-> get_queue_name(config_default.queue),
                 soft_time_limit |-> config_default.soft_time_limit,
                 task_id |-> task_id,
                 immutable |-> TRUE,
                 MessageGroupId |-> task_id],
              cached |-> cache,
              uuids |-> n + 1]

\* the tokens of the runs of plugins among the descriptors submitted
sibling_tokens(submitted) ==
    {submitted[k].token :
        k \in {i \in DOMAIN submitted :
                  submitted[i].signature.task = "run_plugin"}}

\* a transition that waits for nothing
stage_dependencies_none(submitted) == {}

\* the dependencies of the transition to the completed status: the runs of
\* the stage
stage_dependencies(submitted) == sibling_tokens(submitted)


(***************************************************************************)
(* The state of the program and its operations.  A call is a sequence of   *)
(* steps, one per query; result holds the call in progress (pc is the      *)
(* query it is at) or what the last call returned or raised (pc "done").   *)
(***************************************************************************)
NoResult == [op |-> "none", pc |-> "done"]

\* no call is in progress and none has left a result
Idle == result = NoResult

\* no stage of a job is in progress; stages counts the stages begun so far
NoPipeline ==
    [pc |-> "idle", stages |-> 0, requested |-> {}, pending |-> {},
     submitted |-> <<>>, finished |-> {}]

\* the rows users, organization owners and administrators can save
SavedRows == {Row(p, scope, ValueOf(scope)) : p \in Parameters, scope \in Scopes}

\* the contents of the table with at most maxRows saved rows
Stores(maxRows) ==
    {rows \in SUBSET SavedRows :
        Cardinality(rows) <= maxRows /\ UniqueTogether(rows)}

\* the default of scan_choice the migration installs (lines 56-79)
InstalledStore ==
    {Row(params[1], [owner |-> None, for_organization |-> FALSE], "default")}

\* the installed plugin once an administrator has saved a default API key
ConfiguredStore ==
    InstalledStore
    \cup {Row(params[2], [owner |-> None, for_organization |-> FALSE],
              ValueOf([owner |-> None, for_organization |-> FALSE]))}

\* the plugin as the migration installs it, and no call made yet
InitPlugin ==
    /\ disabled = FALSE
    /\ disabled_in_organizations = {}
    /\ config = config_default
    /\ cached = NoCache
    /\ uuids = 0
    /\ issued = <<>>
    /\ result = NoResult
    /\ python_module = "validin.Validin"
    /\ pipeline = NoPipeline

\* a call of Parameter.get_first_value(user) begins: the queryset is built,
\* no query is made.  The call keeps the outcomes the whole call would have
\* on the rows of each instant from here to its end.
BeginGetFirstValueOf(ps) ==
    \E p \in ps, user \in JobUsers :
        /\ Idle
        /\ result' = [op |-> "get_first_value", pc |-> "owner",
                      parameter |-> p, user |-> user,
                      instants |->
                        {Outcome(get_first_value(store, STAGE_CI, p, user))}]
        /\ UNCHANGED <<store, STAGE_CI, disabled, disabled_in_organizations,
                       config, cached, uuids, issued, python_module,
                       pipeline>>

\* a call for a parameter of the plugin
BeginGetFirstValue == BeginGetFirstValueOf(Parameters)

\* a call for a parameter of any plugin
BeginGetFirstValueAny == BeginGetFirstValueOf(Parameters \cup OtherParameters)

\* the next query of the call of get_first_value in progress
StepGetFirstValue ==
    /\ result.op = "get_first_value"
    /\ result.pc # "done"
    /\ LET s == get_first_value_step(result.pc, store, STAGE_CI,
                                     result.parameter, result.user)
       IN  /\ result' = IF s.done
                        THEN [op |-> "get_first_value", pc |-> "done",
                              parameter |-> result.parameter,
                              user |-> result.user,
                              instants |-> result.instants,
                              out |-> s.out]
                        ELSE [result EXCEPT !.pc = s.pc]
           /\ store' = s.rows
    /\ UNCHANGED <<STAGE_CI, disabled, disabled_in_organizations, config,
                   cached, uuids, issued, python_module, pipeline>>

\* a call of PythonConfig.read_params(job) begins: self.parameters.all()
\* gives the parameters in some order
BeginReadParams ==
    \E job \in Jobs, order \in ParamOrders :
        /\ Idle
        /\ result' = [op |-> "read_params", pc |-> "owner", job |-> job,
                      order |-> order, i |-> 1, acc |-> {}]
        /\ UNCHANGED <<store, STAGE_CI, disabled, disabled_in_organizations,
                       config, cached, uuids, issued, python_module,
                       pipeline>>

\* the next query of the call of read_params in progress
StepReadParams ==
    /\ result.op = "read_params"
    /\ result.pc # "done"
    /\ LET s == read_params_step(result.order, result.i, result.pc,
                                 result.acc, store, STAGE_CI, result.job)
       IN  /\ result' = IF s.done
                        THEN [op |-> "read_params", pc |-> "done",
                              job |-> result.job, order |-> result.order,
                              out |-> s.out]
                        ELSE [result EXCEPT !.pc = s.pc, !.i = s.i,
                                            !.acc = s.acc]
           /\ store' = s.rows
    /\ UNCHANGED <<STAGE_CI, disabled, disabled_in_organizations, config,
                   cached, uuids, issued, python_module, pipeline>>

\* a call of PythonConfig.is_runnable(user) begins
BeginIsRunnable ==
    \E user \in JobUsers :
        /\ Idle
        /\ result' = [op |-> "is_runnable", pc |-> "abstract", k |-> 0,
                      user |-> user]
        /\ UNCHANGED <<store, STAGE_CI, disabled, disabled_in_organizations,
                       config, cached, uuids, issued, python_module,
                       pipeline>>

\* the next query of the call of is_runnable in progress
StepIsRunnable ==
    /\ result.op = "is_runnable"
    /\ result.pc # "done"
    /\ LET s == is_runnable_step(result.pc, result.k, store, disabled,
                                 disabled_in_organizations, result.user)
       IN  result' = IF s.done
                     THEN [op |-> "is_runnable", pc |-> "done",
                           user |-> result.user, out |-> s.out]
                     ELSE [result EXCEPT !.pc = s.pc, !.k = s.k]
    /\ UNCHANGED <<store, STAGE_CI, disabled, disabled_in_organizations,
                   config, cached, uuids, issued, python_module, pipeline>>

\* a call of PythonConfig.get_signature(job) begins
BeginGetSignature ==
    \E job \in Jobs :
        /\ Idle
        /\ uuids < MaxSignatures
        /\ result' = [op |-> "get_signature", pc |-> "abstract", k |-> 0,
                      job |-> job]
        /\ UNCHANGED <<store, STAGE_CI, disabled, disabled_in_organizations,
                       config, cached, uuids, issued, python_module,
                       pipeline>>

\* the next query of the call of get_signature in progress: a query of its
\* is_runnable and, after the last one, the signature or the error
StepGetSignature ==
    /\ result.op = "get_signature"
    /\ result.pc # "done"
    /\ LET s == is_runnable_step(result.pc, result.k, store, disabled,
                                 disabled_in_organizations, result.job.user)
           r == get_signature_after(s.out, config, cached, uuids, result.job)
       IN  IF s.done
           THEN /\ result' = [op |-> "get_signature", pc |-> "done",
                              job |-> result.job, out |-> r]
                /\ cached' = r.cached
                /\ uuids' = r.uuids
                /\ issued' = IF r.exc = "none"
                             THEN Append(issued, r.signature.task_id)
                             ELSE issued
           ELSE /\ result' = [result EXCEPT !.pc = s.pc, !.k = s.k]
                /\ UNCHANGED <<cached, uuids, issued>>
    /\ UNCHANGED <<store, STAGE_CI, disabled, disabled_in_organizations,
                   config, python_module, pipeline>>

\* the caller is done with what the last call returned
Forget ==
    /\ result.pc = "done"
    /\ result # NoResult
    /\ result' = NoResult
    /\ UNCHANGED <<store, STAGE_CI, disabled, disabled_in_organizations,
                   config, cached, uuids, issued, python_module, pipeline>>

\* a call of PythonConfig.clean() on the configuration
Clean ==
    LET r == clean(config)
    IN  /\ Idle
        /\ result' = [op |-> "clean", pc |-> "done", pre |-> config,
                      out |-> r]
        /\ config' = r.config
        /\ UNCHANGED <<store, STAGE_CI, disabled, disabled_in_organizations,
                       cached, uuids, issued, python_module, pipeline>>

\* what a write of another request leaves in result: a call of
\* get_first_value in progress sees one more instant
AfterWrite(rows) ==
    IF result.op = "get_first_value" /\ result.pc # "done"
    THEN [result EXCEPT
            !.instants = @ \cup {Outcome(get_first_value(
                                    rows, STAGE_CI, result.parameter,
                                    result.user))}]
    ELSE result

\* another request saves a value, also while a call is in progress
WriterSave ==
    \E p \in Parameters, scope \in Scopes :
        /\ Cardinality(store) < MaxRowsRace
        /\ \A r \in store : ~(r.parameter = p.name /\ ScopeOf(r) = scope)
        /\ store' = store \cup {Row(p, scope, ValueOf(scope))}
        /\ result' = AfterWrite(store')
        /\ UNCHANGED <<STAGE_CI, disabled, disabled_in_organizations, config,
                       cached, uuids, issued, python_module, pipeline>>

\* another request deletes a value, also while a call is in progress
WriterDelete ==
    \E r \in store :
        /\ store' = store \ {r}
        /\ result' = AfterWrite(store')
        /\ UNCHANGED <<STAGE_CI, disabled, disabled_in_organizations, config,
                       cached, uuids, issued, python_module, pipeline>>

\* the owner of an organization disables or enables the plugin for the
\* organization, also while a call is in progress
WriterDisableInOrganization ==
    \E o \in Orgs :
        /\ disabled_in_organizations' =
              IF o \in disabled_in_organizations
              THEN disabled_in_organizations \ {o}
              ELSE disabled_in_organizations \cup {o}
        /\ UNCHANGED <<store, STAGE_CI, disabled, config, cached, uuids,
                       issued, result, python_module, pipeline>>

\* the coordinator enters the running status of the stage for a job: it
\* submits the transition to the running status and takes the runnable
\* plugins among the requested ones
StartStage ==
    \E job \in StageJobs, requested \in SUBSET StagePlugins :
        LET r == signature_pipeline_running(job, uuids)
        IN  /\ pipeline.pc = "idle"
            /\ pipeline.stages < MaxStages
            /\ pipeline' =
                 [pc |-> "building",
                  stages |-> pipeline.stages + 1,
                  job |-> job,
                  requested |-> requested,
                  pending |->
                    {pl \in requested :
                        stage_runnable(store, disabled,
                                       disabled_in_organizations, pl,
                                       job.user)},
                  submitted |->
                    <<Descriptor(r.signature, r.signature.MessageGroupId,
                                 {})>>,
                  finished |-> {}]
            /\ uuids' = r.uuids
            /\ result' = NoResult
            /\ UNCHANGED <<store, STAGE_CI, disabled,
                           disabled_in_organizations, config, cached, issued,
                           python_module>>

\* the coordinator gets the signature of one more runnable plugin and submits
\* it
BuildAndSubmit ==
    \E plugin \in pipeline.pending :
        LET r == stage_signature(store, disabled, disabled_in_organizations,
                                 config, cached, uuids, pipeline.job, plugin)
        IN  /\ pipeline.pc = "building"
            /\ r.exc = "none"
            /\ pipeline' =
                 [pipeline EXCEPT
                    !.pending = @ \ {plugin},
                    !.submitted =
                       Append(@, Descriptor(r.signature, r.signature.task_id,
                                            {}))]
            /\ cached' = r.cached
            /\ uuids' = r.uuids
            /\ issued' = IF plugin = PluginName
                         THEN Append(issued, r.signature.task_id)
                         ELSE issued
            /\ result' = NoResult
            /\ UNCHANGED <<store, STAGE_CI, disabled,
                           disabled_in_organizations, config, python_module>>

\* every runnable plugin has its descriptor submitted: the coordinator
\* submits the transition to the completed status
SubmitCompleted ==
    LET r == signature_pipeline_completed(pipeline.job, uuids)
    IN  /\ pipeline.pc = "building"
        /\ pipeline.pending = {}
        /\ pipeline' =
             [pipeline EXCEPT
                !.pc = "submitted",
                !.submitted =
                   Append(@, Descriptor(r.signature,
                                        r.signature.MessageGroupId,
                                        stage_dependencies(
                                            pipeline.submitted)))]
        /\ uuids' = r.uuids
        /\ result' = NoResult
        /\ UNCHANGED <<store, STAGE_CI, disabled, disabled_in_organizations,
                       config, cached, issued, python_module>>

\* the worker pool runs a submitted descriptor whose dependencies have all
\* finished
WorkerRun ==
    \E k \in DOMAIN pipeline.submitted :
        LET d == pipeline.submitted[k]
        IN  /\ d.token \notin pipeline.finished
            /\ d.dependencies \subseteq pipeline.finished
            /\ pipeline' = [pipeline EXCEPT !.finished = @ \cup {d.token}]
            /\ UNCHANGED <<store, STAGE_CI, disabled,
                           disabled_in_organizations, config, cached, uuids,
                           issued, result, python_module>>

\* the stage is over: every descriptor of it has finished
EndStage ==
    /\ pipeline.pc = "submitted"
    /\ \A k \in DOMAIN pipeline.submitted :
          pipeline.submitted[k].token \in pipeline.finished
    /\ pipeline' = [NoPipeline EXCEPT !.stages = pipeline.stages]
    /\ UNCHANGED <<store, STAGE_CI, disabled, disabled_in_organizations,
                   config, cached, uuids, issued, result, python_module>>

(***************************************************************************)
(* Resolution of parameters and the configuration check, on every          *)
(* contents of the table with a few saved rows.                            *)
(***************************************************************************)
\* a deployment: settings.STAGE_CI is off
Init ==
    /\ store \in Stores(MaxRows)
    /\ STAGE_CI = FALSE
    /\ InitPlugin

Next ==
    \/ BeginGetFirstValue
    \/ StepGetFirstValue
    \/ BeginReadParams
    \/ StepReadParams
    \/ BeginIsRunnable
    \/ StepIsRunnable
    \/ Forget

Spec == Init /\ [][Next]_vars

(***************************************************************************)
(* Resolution against the writes of other requests, which come between any *)
(* two queries of a call, under either value of settings.STAGE_CI.         *)
(***************************************************************************)
InitRace ==
    /\ store = {}
    /\ STAGE_CI \in BOOLEAN
    /\ InitPlugin

NextRace ==
    \/ WriterSave
    \/ WriterDelete
    \/ BeginGetFirstValue
    \/ StepGetFirstValue
    \/ BeginReadParams
    \/ StepReadParams
    \/ Forget

SpecRace == InitRace /\ [][NextRace]_vars

(***************************************************************************)
(* Runnability and dispatch against the writes of other requests.  The     *)
(* disabled flag is the one of the instance the request loaded: a call     *)
(* reads it from the instance and makes no query for it.                   *)
(***************************************************************************)
InitRaceRun ==
    /\ store = {}
    /\ STAGE_CI = FALSE
    /\ disabled \in BOOLEAN
    /\ disabled_in_organizations = {}
    /\ config = config_default
    /\ cached = NoCache
    /\ uuids = 0
    /\ issued = <<>>
    /\ result = NoResult
    /\ python_module = "validin.Validin"
    /\ pipeline = NoPipeline

NextRaceRun ==
    \/ WriterSave
    \/ WriterDelete
    \/ WriterDisableInOrganization
    \/ BeginIsRunnable
    \/ StepIsRunnable
    \/ BeginGetSignature
    \/ StepGetSignature
    \/ Forget

SpecRaceRun == InitRaceRun /\ [][NextRaceRun]_vars

(***************************************************************************)
(* The calls of a dispatch and the resolution of a parameter of any        *)
(* plugin, under either value of settings.STAGE_CI.                        *)
(***************************************************************************)
InitFrame ==
    /\ store \in Stores(MaxRowsFrame)
    /\ STAGE_CI \in BOOLEAN
    /\ InitPlugin

NextFrame ==
    \/ BeginGetFirstValueAny
    \/ StepGetFirstValue
    \/ BeginReadParams
    \/ StepReadParams
    \/ BeginIsRunnable
    \/ StepIsRunnable
    \/ BeginGetSignature
    \/ StepGetSignature
    \/ Forget

SpecFrame == InitFrame /\ [][NextFrame]_vars

(***************************************************************************)
(* Runnability and dispatch under every setting of the flags, with a few   *)
(* saved rows.                                                             *)
(***************************************************************************)
InitRun ==
    /\ store \in Stores(MaxRowsRun)
    /\ STAGE_CI = FALSE
    /\ disabled \in BOOLEAN
    /\ disabled_in_organizations \in SUBSET Orgs
    /\ config = config_default
    /\ cached = NoCache
    /\ uuids = 0
    /\ issued = <<>>
    /\ result = NoResult
    /\ python_module = "validin.Validin"
    /\ pipeline = NoPipeline

NextRun ==
    \/ BeginIsRunnable
    \/ StepIsRunnable
    \/ BeginGetSignature
    \/ StepGetSignature
    \/ Forget

SpecRun == InitRun /\ [][NextRun]_vars

(***************************************************************************)
(* Validation and dispatch of a configured plugin under every queue, time  *)
(* limit and python_module an administrator may have saved.                *)
(***************************************************************************)
InitDispatch ==
    /\ store = ConfiguredStore
    /\ STAGE_CI = FALSE
    /\ disabled = FALSE
    /\ disabled_in_organizations = {}
    /\ config \in [queue : Queues, soft_time_limit : SoftTimeLimits]
    /\ cached = NoCache
    /\ uuids = 0
    /\ issued = <<>>
    /\ result = NoResult
    /\ python_module \in PythonModules
    /\ pipeline = NoPipeline

NextDispatch ==
    \/ Clean
    \/ BeginGetSignature
    \/ StepGetSignature
    \/ Forget

SpecDispatch == InitDispatch /\ [][NextDispatch]_vars

(***************************************************************************)
(* The analyzers stage of a job, with the plugin configured and enabled or *)
(* disabled for the organization o1.                                       *)
(***************************************************************************)
InitStage ==
    /\ store = ConfiguredStore
    /\ STAGE_CI = FALSE
    /\ disabled = FALSE
    /\ disabled_in_organizations \in {{}, {"o1"}}
    /\ config = config_default
    /\ cached = NoCache
    /\ uuids = 0
    /\ issued = <<>>
    /\ result = NoResult
    /\ python_module = "validin.Validin"
    /\ pipeline = NoPipeline

NextStage ==
    \/ StartStage
    \/ BuildAndSubmit
    \/ SubmitCompleted
    \/ WorkerRun
    \/ EndStage

SpecStage == InitStage /\ [][NextStage]_vars

(***************************************************************************)
(* The tiers a value of a parameter can be saved at, as the properties     *)
(* below speak of them.                                                    *)
(***************************************************************************)
\* the user-scope values of the parameter saved for the user
UserTier(rows, name, user) ==
    {r \in rows : r.parameter = name /\ user # None
                  /\ r.owner = user /\ ~r.for_organization}

\* the organization-scope values saved for the organization of the user
OrgTier(rows, name, user) ==
    {r \in rows : r.parameter = name /\ user # None /\ has_membership(user)
                  /\ r.for_organization
                  /\ r.owner = org_owner(membership(user))}

\* the default values of the parameter
DefaultTier(rows, name) ==
    {r \in rows : r.parameter = name /\ r.owner = None
                  /\ ~r.for_organization}

NoValueAtAnyTier(rows, name, user) ==
    /\ UserTier(rows, name, user) = {}
    /\ OrgTier(rows, name, user) = {}
    /\ DefaultTier(rows, name) = {}

Overridden(job, name) == name \in Keys(job.runtime_configuration)

\* the last call was of op, and it has returned or raised
Finished(op) == result.op = op /\ result.pc = "done"

(***************************************************************************)
(* C1.  When a user-scope value of a user who is a member of an            *)
(* organization (its owner included), an organization-scope value of that  *)
(* organization and a default value of a parameter are all saved,          *)
(* get_first_value returns the user-scope value.                           *)
(***************************************************************************)
C1_UserValueWins ==
    (/\ Finished("get_first_value")
     /\ result.user # None
     /\ has_membership(result.user)
     /\ UserTier(store, result.parameter.name, result.user) # {}
     /\ OrgTier(store, result.parameter.name, result.user) # {}
     /\ DefaultTier(store, result.parameter.name) # {})
    => /\ result.out.exc = "none"
       /\ result.out.row \in
             UserTier(store, result.parameter.name, result.user)

(***************************************************************************)
(* C2.  As claimed: when the runtime configuration of the job of a         *)
(* registered user names a parameter, read_params maps the parameter to    *)
(* the override value.                                                     *)
(***************************************************************************)
C2_OverrideAlwaysMapped ==
    (Finished("read_params") /\ result.job.user # None)
    => \A name \in Keys(result.job.runtime_configuration) :
          /\ result.out.exc = "none"
          /\ <<name, MapGet(result.job.runtime_configuration, name)>>
                \in result.out.params

(***************************************************************************)
(* C2, amended.  Whenever read_params returns a mapping, a parameter the   *)
(* runtime configuration names is mapped to exactly the override value;    *)
(* and what read_params returns or raises is the same when the saved       *)
(* values of that parameter are taken away: they are not consulted.        *)
(***************************************************************************)
C2_OverrideVerbatim ==
    Finished("read_params")
    => \A name \in Keys(result.job.runtime_configuration) :
          LET others == {r \in store : r.parameter # name}
              again == read_params(result.order, others, STAGE_CI, result.job)
          IN  /\ result.out.exc = "none" =>
                    {e \in result.out.params : e[1] = name} =
                    {<<name, MapGet(result.job.runtime_configuration, name)>>}
              /\ again.exc = result.out.exc
              /\ again.params = result.out.params

\* an override returned although a user-scope, an organization-scope and a
\* default value of the parameter are saved
C2_Witness ==
    /\ Finished("read_params")
    /\ result.out.exc = "none"
    /\ \E name \in Keys(result.job.runtime_configuration) :
          /\ UserTier(store, name, result.job.user) # {}
          /\ DefaultTier(store, name) # {}
          /\ <<name, "abc">> \in result.out.params

(***************************************************************************)
(* C3.  For a user without a user-scope value of the parameter:            *)
(* get_first_value returns the organization-scope value of the user's      *)
(* organization when there is one, also when a default exists; it returns  *)
(* a default only when the user has no membership or the organization has  *)
(* no value.                                                               *)
(***************************************************************************)
C3_OrganizationBeforeDefault ==
    (/\ Finished("get_first_value")
     /\ UserTier(store, result.parameter.name, result.user) = {})
    => LET org == OrgTier(store, result.parameter.name, result.user)
       IN  /\ org # {} => /\ result.out.exc = "none"
                           /\ result.out.row \in org
           /\ (/\ result.out.exc = "none"
                /\ result.out.row.owner = None)
              => (~has_membership(result.user) \/ org = {})

\* a member who is not the owner gets the organization's value although a
\* default is saved
C3_Witness ==
    /\ Finished("get_first_value")
    /\ result.user = "u2"
    /\ DefaultTier(store, result.parameter.name) # {}
    /\ result.out.exc = "none"
    /\ result.out.row.for_organization
    /\ result.out.row.owner = "u1"

(***************************************************************************)
(* C4.  When a required parameter has no runtime override and no value at  *)
(* any tier, read_params raises the not-configured error (RuntimeError)    *)
(* and returns no mapping, and is_runnable returns false.                  *)
(***************************************************************************)
C4_RequiredMissingRaises ==
    /\ (/\ Finished("read_params")
         /\ \E p \in required_parameters :
               /\ ~Overridden(result.job, p.name)
               /\ NoValueAtAnyTier(store, p.name, result.job.user))
        => /\ result.out.exc = "RuntimeError"
           /\ result.out.params = {}
    /\ (/\ Finished("is_runnable")
         /\ \E p \in required_parameters :
               NoValueAtAnyTier(store, p.name, result.user))
        => result.out = FALSE

(***************************************************************************)
(* C5.  When an optional parameter has no runtime override and no value    *)
(* at any tier, and every other parameter has an override or a value at    *)
(* some tier, read_params succeeds for every job, the job of the null user *)
(* included: the mapping has no entry for the parameter and has an entry   *)
(* for every other parameter.                                              *)
(***************************************************************************)
C5_OptionalMissingOmitted ==
    (/\ Finished("read_params")
     /\ \E p \in Parameters :
           /\ ~p.required
           /\ ~Overridden(result.job, p.name)
           /\ NoValueAtAnyTier(store, p.name, result.job.user)
           /\ \A q \in Parameters \ {p} :
                 \/ Overridden(result.job, q.name)
                 \/ ~NoValueAtAnyTier(store, q.name, result.job.user))
    => /\ result.out.exc = "none"
       /\ \A p \in Parameters :
             p.name \in Keys(result.out.params)
             <=> \/ Overridden(result.job, p.name)
                 \/ ~NoValueAtAnyTier(store, p.name, result.job.user)

(***************************************************************************)
(* Runnability as the properties below speak of it: the plugin is not      *)
(* disabled, the user's organization is not in the disable set, and every  *)
(* required parameter has a saved value at one of the user's tiers.        *)
(***************************************************************************)
OrgOf(user) == IF user = None THEN NoOrg ELSE membership(user)

AllRequiredSaved(user) ==
    \A p \in Parameters :
        p.required => ~NoValueAtAnyTier(store, p.name, user)

Signed == Finished("get_signature") /\ result.out.exc = "none"

(***************************************************************************)
(* C6.  A disabled plugin is not runnable for any user, whatever values    *)
(* are saved, and get_signature returns no signature for it.               *)
(***************************************************************************)
C6_DisabledNeverRunnable ==
    disabled
    => /\ Finished("is_runnable") => result.out = FALSE
       /\ Finished("get_signature") => result.out.exc = "RuntimeError"

\* is_runnable answered false for a user whose required parameter is saved
C6_Witness ==
    /\ disabled
    /\ Finished("is_runnable")
    /\ AllRequiredSaved(result.user)
    /\ OrgOf(result.user) \notin disabled_in_organizations
    /\ result.out = FALSE

(***************************************************************************)
(* C7.  As claimed: for a plugin that is not disabled and an organization  *)
(* O of its disable set, is_runnable is false for the members of O and     *)
(* true for every user outside O whose required parameters are saved.      *)
(***************************************************************************)
C7_RunnableOutsideOrg ==
    (~disabled /\ Finished("is_runnable"))
    => \A o \in disabled_in_organizations :
          /\ OrgOf(result.user) = o => result.out = FALSE
          /\ (OrgOf(result.user) # o /\ AllRequiredSaved(result.user))
                => result.out = TRUE

(***************************************************************************)
(* C7, amended.  For a plugin that is not disabled, is_runnable is false   *)
(* for every user whose organization is in the disable set, and true for   *)
(* every user whose organization is not in it (a member of another         *)
(* organization, a user without membership, the null user) and whose       *)
(* required parameters are saved.                                          *)
(***************************************************************************)
C7_RunnableOutsideDisableSet ==
    (~disabled /\ Finished("is_runnable"))
    => /\ OrgOf(result.user) \in disabled_in_organizations
            => result.out = FALSE
       /\ (/\ OrgOf(result.user) \notin disabled_in_organizations
            /\ AllRequiredSaved(result.user))
            => result.out = TRUE

\* a member of another organization can run a plugin disabled for o1
C7_Witness ==
    /\ ~disabled
    /\ disabled_in_organizations = {"o1"}
    /\ Finished("is_runnable")
    /\ result.user = "u3"
    /\ result.out = TRUE

(***************************************************************************)
(* C8.  get_signature returns a signature exactly when the plugin is       *)
(* runnable for the user of the job at the call; otherwise it raises       *)
(* RuntimeError, returns no signature and generates no task id.            *)
(***************************************************************************)
C8_SignatureOnlyIfRunnable ==
    /\ Finished("get_signature")
        => LET runnable ==
                 /\ ~disabled
                 /\ OrgOf(result.job.user) \notin disabled_in_organizations
                 /\ AllRequiredSaved(result.job.user)
           IN  /\ result.out.exc = "none" <=> runnable
               /\ ~runnable => /\ result.out.exc = "RuntimeError"
                                /\ "signature" \notin DOMAIN result.out
    /\ Len(issued) = uuids

\* a refusal after a signature was returned: no task id was generated for it
C8_Witness ==
    /\ Finished("get_signature")
    /\ result.out.exc = "RuntimeError"
    /\ Len(issued) = 1
    /\ uuids = 1

(***************************************************************************)
(* C9.  No two signatures returned by get_signature carry the same task    *)
(* id.                                                                     *)
(***************************************************************************)
C9_TaskIdsDistinct ==
    /\ \A i, j \in DOMAIN issued : i # j => issued[i] # issued[j]
    /\ Signed => /\ result.out.signature.task_id = issued[Len(issued)]
                  /\ result.out.signature.args[5] =
                        result.out.signature.task_id

\* two signatures were returned
C9_Witness ==
    /\ Signed
    /\ Len(issued) >= 2

(***************************************************************************)
(* C10.  The queue of a returned signature is the configured queue when    *)
(* it is one of CELERY_QUEUES and the default queue otherwise, so it is    *)
(* always a valid queue; its soft time limit is the configured one.        *)
(***************************************************************************)
C10_QueueAndTimeLimit ==
    Signed
    => LET sig == result.out.signature
       IN  /\ config.queue \in CELERY_QUEUES
                => sig.queue = get_queue_name(config.queue)
           /\ config.queue \notin CELERY_QUEUES
                => sig.queue = get_queue_name(DEFAULT_QUEUE)
           /\ sig.queue \in {get_queue_name(q) : q \in CELERY_QUEUES}
           /\ sig.soft_time_limit = config.soft_time_limit

\* a signature for a plugin whose configured queue is no valid queue, built
\* from the cached values of an earlier one
C10_Witness ==
    /\ Signed
    /\ config.queue = "bogus"
    /\ config.soft_time_limit = 30
    /\ result.out.signature.queue = get_queue_name(DEFAULT_QUEUE)
    /\ Len(issued) >= 2

(***************************************************************************)
(* C12.  As claimed: the arguments of a returned signature hold every      *)
(* entry of the mapping read_params returns for the job, whichever tier    *)
(* the entry was resolved from.                                            *)
(***************************************************************************)
C12_ResolvedParamsInArgs ==
    Signed
    => \A order \in ParamOrders :
          LET r == read_params(order, store, STAGE_CI, result.job)
          IN  r.exc = "none" => r.params \subseteq result.out.signature.args[4]

(***************************************************************************)
(* C12, amended.  The fourth argument of a returned signature is the       *)
(* runtime configuration of the job for the plugin and nothing else: of    *)
(* the entries read_params returns for the job, the arguments hold the     *)
(* ones resolved from a runtime override, and none of those resolved from  *)
(* a saved value.                                                          *)
(***************************************************************************)
C12_OverridesInArgs ==
    Signed
    => LET args == result.out.signature.args
       IN  /\ args[4] = result.job.runtime_configuration
           /\ \A order \in ParamOrders :
                 LET r == read_params(order, store, STAGE_CI, result.job)
                 IN  r.exc = "none"
                     => \A e \in r.params :
                           e \in args[4] <=> Overridden(result.job, e[1])

\* a signature for a job that overrides scan_choice and takes the API key
\* from the saved default: the arguments hold the first and not the second
C12_Witness ==
    /\ Signed
    /\ <<"scan_choice", "a_records">> \in result.out.signature.args[4]
    /\ \E order \in ParamOrders :
          LET r == read_params(order, store, STAGE_CI, result.job)
          IN  /\ r.exc = "none"
              /\ <<"api_key_name", "def-key">> \in r.params
              /\ <<"api_key_name", "def-key">> \notin
                    result.out.signature.args[4]

(***************************************************************************)
(* C15.  As claimed: no step of a call of is_runnable, read_params or      *)
(* get_signature changes the saved values or the configuration of the      *)
(* plugin.                                                                 *)
(***************************************************************************)
C15_StoreUntouched ==
    [][result.op \in {"is_runnable", "read_params", "get_signature"}
       => /\ store' = store
          /\ UNCHANGED <<disabled, disabled_in_organizations, config,
                         python_module>>]_vars

\* the user a call in progress resolves for
Caller == IF result.op = "get_first_value" THEN result.user
          ELSE result.job.user

\* the value the CI stage saves for a parameter, by the name of the
\* parameter; none for test_param
SavedForTest(name) ==
    CASE name = "base_url" -> "https://intelowl.com"
      [] name = "pdns_credentials" -> "user|pwd"
      [] name \in {"scan_choice", "api_key_name"} -> "test"
      [] OTHER -> "nothing"

(***************************************************************************)
(* C15, amended.  A call of is_runnable or get_signature leaves the saved  *)
(* values as they were, and so does a resolution (read_params, or          *)
(* get_first_value alone) when settings.STAGE_CI is off.  When it is on,   *)
(* a resolution deletes and changes nothing, and saves a default (no       *)
(* owner, not for an organization) for a parameter it looked up for a      *)
(* registered user and found no value of at any tier: with value           *)
(* "https://intelowl.com" when the name of the parameter contains "url",   *)
(* "user|pwd" for pdns_credentials, nothing for another name that          *)
(* contains "test", and "test" for every other parameter, those of this    *)
(* plugin included.  No call changes the configuration of the plugin.      *)
(***************************************************************************)
C15_StoreFrame ==
    [][/\ UNCHANGED <<disabled, disabled_in_organizations, config,
                      python_module>>
       /\ store \subseteq store'
       /\ result.op \in {"is_runnable", "get_signature"} => store' = store
       /\ ~STAGE_CI => store' = store
       /\ \A r \in store' \ store :
             /\ r.owner = None
             /\ ~r.for_organization
             /\ r.value = SavedForTest(r.parameter)
             /\ Caller # None
             /\ result.op = "read_params"
                  => ~Overridden(result.job, r.parameter)
             /\ result.op = "get_first_value"
                  => r.parameter = result.parameter.name
             /\ NoValueAtAnyTier(store, r.parameter, Caller)]_vars

\* under STAGE_CI read_params has saved a default for the required
\* parameter, which had no value, and returns it
C15_Witness ==
    /\ STAGE_CI
    /\ Finished("read_params")
    /\ result.out.exc = "none"
    /\ <<"api_key_name", "test">> \in result.out.params
    /\ DefaultRow(params[2], "test") \in store

(***************************************************************************)
(* The rows out of a user's scopes: the personal rows of other users and   *)
(* the rows of organizations the user is not a member of.                  *)
(***************************************************************************)
Foreign(rows, user) ==
    {r \in rows :
        /\ r.owner \notin {None, user}
        /\ \/ ~r.for_organization
           \/ user = None
           \/ ~has_membership(user)
           \/ r.owner # org_owner(membership(user))}

\* the rows a user may be given: the user's own, the ones of the user's
\* organization, the ownerless ones
Permitted(row, user) ==
    \/ row.owner = user
    \/ row.owner = None
    \/ /\ user # None
       /\ has_membership(user)
       /\ row.for_organization
       /\ row.owner = org_owner(membership(user))

(***************************************************************************)
(* C16.  What get_first_value returns or raises for a user, and what       *)
(* is_runnable answers for the user, is the same on the store and on the   *)
(* store without the rows out of the user's scopes, so it is the same on   *)
(* any two stores that differ in such rows only; and a row returned for    *)
(* the user is the user's own, one of the user's organization, or          *)
(* ownerless.                                                              *)
(***************************************************************************)
C16_ScopesIsolated ==
    /\ Finished("get_first_value")
        => LET own == store \ Foreign(store, result.user)
               alone == get_first_value(own, STAGE_CI, result.parameter,
                                        result.user)
           IN  /\ alone.exc = result.out.exc
               /\ result.out.exc = "none"
                    => /\ alone.row = result.out.row
                       /\ Permitted(result.out.row, result.user)
    /\ Finished("is_runnable")
        => result.out = is_runnable(store \ Foreign(store, result.user),
                                    disabled, disabled_in_organizations,
                                    result.user)

\* a member of o1 gets the default although the owner of o1 has a personal
\* value and the other organization has a value of the parameter
C16_Witness ==
    /\ Finished("get_first_value")
    /\ result.user = "u2"
    /\ \E r \in Foreign(store, "u2") :
          r.parameter = result.parameter.name /\ r.owner = "u1"
    /\ \E r \in Foreign(store, "u2") :
          r.parameter = result.parameter.name /\ r.for_organization
    /\ result.out.exc = "none"
    /\ result.out.row.owner = None

(***************************************************************************)
(* C13.  clean raises ValidationError exactly when the class of the        *)
(* plugin cannot be imported, and then leaves the config as it was.  A     *)
(* queue that is none of CELERY_QUEUES raises nothing: clean replaces it   *)
(* by the default queue and leaves soft_time_limit and the other fields    *)
(* as they were, and a valid queue is left as it is; after a clean that    *)
(* raised nothing the queue of the config is one of CELERY_QUEUES.         *)
(***************************************************************************)
C13_CleanRejectsUnloadable ==
    result.op = "clean"
    => /\ result.out.exc = "ValidationError"
            <=> python_complete_path \notin Importable
       /\ result.out.exc \in {"none", "ValidationError"}
       /\ config = result.out.config
       /\ result.out.exc = "ValidationError" => config = result.pre
       /\ result.out.exc = "none"
            => /\ config.queue \in CELERY_QUEUES
               /\ config.queue = IF result.pre.queue \in CELERY_QUEUES
                                 THEN result.pre.queue
                                 ELSE DEFAULT_QUEUE
               /\ config.soft_time_limit = result.pre.soft_time_limit
               /\ DOMAIN config = DOMAIN result.pre

\* a loadable plugin with a queue that is no valid queue was accepted and
\* its queue replaced
C13_Witness ==
    /\ result.op = "clean"
    /\ result.out.exc = "none"
    /\ result.pre.queue = "bogus"
    /\ result.pre.soft_time_limit = 30
    /\ config = [queue |-> DEFAULT_QUEUE, soft_time_limit |-> 30]

(***************************************************************************)
(* C14.  What a call of get_first_value returns or raises, with values     *)
(* saved and deleted by other requests between its queries, is what the    *)
(* resolution gives on the rows of some one instant between the beginning  *)
(* and the end of the call.                                                *)
(***************************************************************************)
C14_ResolutionAtomic ==
    Finished("get_first_value") => result.out \in result.instants

(***************************************************************************)
(* C11.  In a stage with N runnable plugins, when the transition to the    *)
(* completed status is among the descriptors submitted, the descriptors    *)
(* of the N runs, one for each runnable plugin, were all submitted before  *)
(* it; its dependencies are exactly their N tokens; and it has not         *)
(* finished unless all N runs have.                                        *)
(***************************************************************************)
C11_CompletedAfterSiblings ==
    pipeline.pc # "idle"
    => LET sub == pipeline.submitted
           siblings == {k \in DOMAIN sub :
                           sub[k].signature.task = "run_plugin"}
           runnable == {pl \in pipeline.requested :
                           stage_runnable(store, disabled,
                                          disabled_in_organizations, pl,
                                          pipeline.job.user)}
           N == Cardinality(runnable)
       IN  \A k \in DOMAIN sub :
              (/\ sub[k].signature.task = "job_set_pipeline_status"
               /\ sub[k].signature.args[2] = stage_status_complete)
              => /\ Cardinality(siblings) = N
                 /\ {sub[j].signature.args[3] : j \in siblings} = runnable
                 /\ \A j \in siblings : j < k
                 /\ sub[k].dependencies = {sub[j].token : j \in siblings}
                 /\ Cardinality(sub[k].dependencies) = N
                 /\ sub[k].token \in pipeline.finished
                      => \A j \in siblings :
                            sub[j].token \in pipeline.finished

\* the transition to the completed status of a stage of three runnable
\* plugins has run
C11_Witness ==
    /\ pipeline.pc = "submitted"
    /\ Cardinality(sibling_tokens(pipeline.submitted)) = 3
    /\ \E k \in DOMAIN pipeline.submitted :
          /\ pipeline.submitted[k].signature.args[2] = stage_status_complete
          /\ Cardinality(pipeline.submitted[k].dependencies) = 3
          /\ pipeline.submitted[k].token \in pipeline.finished

====

